---- MODULE Spec2Model ----
(***************************************************************************)
(* jingo_minify/helpers.py: the js() and css() template functions, the     *)
(* production build-id rule, the development cache-busting token and the   *)
(* mtime-driven compile_css().                                             *)
(*                                                                         *)
(* Strings are sequences of string pieces, so that '%s.css' % item,        *)
(* startswith, endswith and os.path.join are computed on the pieces.       *)
(* A piece of DirPieces is a directory part (it ends in a slash).          *)
(* File times are counted in ticks, TicksPerSecond ticks to the second;    *)
(* the wall clock is assumed never to go backwards.                        *)
(***************************************************************************)
EXTENDS Integers, Sequences, FiniteSets, TLC

VARIABLES
    LESS_PREPROCESS,  \* settings.LESS_PREPROCESS
    BUILD_ID_CSS,     \* build.BUILD_ID_CSS, or 'dev'
    BUILD_ID_JS,      \* build.BUILD_ID_JS, or 'dev'
    BUNDLE_HASHES,    \* build.BUNDLE_HASHES, or {}
    clock,            \* the wall clock, in ticks
    fs,               \* path -> mtime in ticks, or NoFile
    dirs,             \* the directories that exist under STATIC_ROOT
    bg,               \* path -> compilers started by Popen and still running
    pc,               \* per render: where it is in the code
    call,             \* per render: the function called and its arguments
    idx,              \* per render: index of the loop over the bundle
    items,            \* per render: the local list 'items'
    out,              \* per render: the markup returned
    err,              \* per render: the exception that left the call, or ""
    loc,              \* per render: the locals of compile_css, and what
                      \* os.path.exists(path_dst) returned
    looked,           \* per render: the items whose path was resolved or stat'ed
    spawned,          \* per render: the compiler invocations of the call
    hist              \* the finished direct calls of compile_css, oldest first

vars == <<LESS_PREPROCESS, BUILD_ID_CSS, BUILD_ID_JS, BUNDLE_HASHES, clock, fs,
          dirs, bg, pc, call, idx, items, out, err, loc, looked, spawned, hist>>

cfgvars == <<LESS_PREPROCESS, BUILD_ID_CSS, BUILD_ID_JS, BUNDLE_HASHES>>

(***************************************************************************)
(* Bounds of the model.                                                    *)
(***************************************************************************)
MaxClock == 3

MaxCalls == 2

TicksPerSecond == 2

Procs == {"r1", "r2"}

Caller == "r1"

NoFile == -1

NoCall == [fn |-> "", bundle |-> "", debug |-> FALSE]

NoLoc == [item |-> <<>>, updated_src |-> 0, updated_css |-> 0, exists |-> FALSE]

(***************************************************************************)
(* Settings of the deployment that is modelled.                            *)
(***************************************************************************)
DEBUG == TRUE

JINGO_MINIFY_USE_STATIC == TRUE

STATIC_ROOT == "/srv/static/"

MEDIA_ROOT == "/srv/media/"

STATIC_URL == "/static/"

MEDIA_URL == "/media/"

AppStatic == "/app/static/"

CssMediaFallback == "screen,projection,tv"

RemotePrefixes == {"//", "http://", "https://"}

DirPieces ==
    {STATIC_ROOT, MEDIA_ROOT, AppStatic, "css/", "js/", "cdn.example/"}
        \cup RemotePrefixes

ItemALess == <<"css/", "b", ".less">>

ItemSass == <<"css/", "s", ".sass">>

ItemScss == <<"css/", "u", ".scss">>

ItemStyl == <<"css/", "t", ".styl">>

ItemCss == <<"css/", "a", ".css">>

ItemJs == <<"js/", "lib", ".js">>

RemoteJs == <<"https://", "cdn.example/", "app", ".js">>

RemoteCss == <<"//", "cdn.example/", "r", ".css">>

RemoteScss == <<"https://", "cdn.example/", "x", ".scss">>

MINIFY_BUNDLES ==
    [css |-> [main  |-> <<ItemCss, ItemALess>>,
              theme |-> <<ItemStyl>>,
              ext   |-> <<RemoteCss, RemoteScss>>],
     js  |-> [main  |-> <<ItemJs, RemoteJs>>]]

\* The preprocessor sources compile_css is called on directly.
CompileItems == {ItemALess, ItemSass, ItemScss, ItemStyl}

\* The sources found in an application's static directory.
AppFiles == {ItemCss, ItemJs} \cup CompileItems

(***************************************************************************)
(* String helpers.                                                         *)
(***************************************************************************)
Last(s) == s[Len(s)]

startswith(s, prefixes) == Len(s) > 0 /\ Head(s) \in prefixes

endswith(s, suffixes) == Len(s) > 0 /\ Last(s) \in suffixes

\* int(t) of a time in ticks: whole seconds.
int(t) == t \div TicksPerSecond

\* '%s' % n
str(n) == ToString(n)

\* '%s.css' % item
DotCss(item) == item \o <<".css">>

\* '%s?build=%s' % (item, token)
WithBuild(item, token) == item \o <<"?build=", token>>

\* os.path.join(root, path): an absolute path replaces the root.
join(root, path) ==
    IF startswith(path, {"//"}) THEN path ELSE <<root>> \o path

RECURSIVE LastDir(_, _)
LastDir(path, n) ==
    IF n = 0 THEN 0
    ELSE IF path[n] \in DirPieces THEN n
    ELSE LastDir(path, n - 1)

\* os.path.dirname(path)
dirname(path) == SubSeq(path, 1, LastDir(path, Len(path)))

(***************************************************************************)
(* get_media_root, get_media_url, get_path, _get_item_path.                *)
(***************************************************************************)
get_media_root == IF JINGO_MINIFY_USE_STATIC THEN STATIC_ROOT ELSE MEDIA_ROOT

get_media_url == IF JINGO_MINIFY_USE_STATIC THEN STATIC_URL ELSE MEDIA_URL

\* django.contrib.staticfiles.finders.find: the path found, or <<>> for None.
static_finder(path) ==
    IF path \in AppFiles THEN <<AppStatic>> \o path ELSE <<>>

get_path(path) ==
    LET full_path == join(get_media_root, path)
        found_path == static_finder(path)
    IN  IF DEBUG /\ JINGO_MINIFY_USE_STATIC /\ found_path # <<>>
        THEN found_path
        ELSE full_path

IsRemote(item) == startswith(item, RemotePrefixes)

_get_item_path(item) ==
    IF IsRemote(item) THEN item ELSE <<get_media_url>> \o item

\* Every item the model handles, and every path of the file system.
AllItems ==
    AppFiles \cup {RemoteJs, RemoteCss, RemoteScss}
        \cup {DotCss(i) : i \in CompileItems \cup {RemoteScss}}

Paths == {get_path(i) : i \in AllItems}

SrcPaths == {get_path(i) : i \in AppFiles}

DstPaths == {get_path(DotCss(i)) : i \in CompileItems}

(***************************************************************************)
(* The build ids (lines 12-16) and the file system at start.               *)
(***************************************************************************)
\* BUNDLE_HASHES keys: 'js:%s' % bundle, 'css:%s' % bundle.
bundle_full(kind, bundle) == <<kind, ":", bundle>>

HashKeys ==
    {bundle_full("css", "main"), bundle_full("js", "main"),
     bundle_full("css", "theme")}

HashTokens == {"h1", "h2"}

\* 'from build import ...' failed: every id is 'dev' and there are no hashes.
NoBuild ==
    /\ BUILD_ID_CSS = "dev"
    /\ BUILD_ID_JS = "dev"
    /\ BUNDLE_HASHES = <<>>

\* build.py was imported; Keys are the bundles it may hold a hash of.
Built(Keys) ==
    /\ BUILD_ID_CSS = "abc123"
    /\ BUILD_ID_JS = "def456"
    /\ \E D \in SUBSET Keys : BUNDLE_HASHES \in [D -> HashTokens]

\* Every source has mtime s; every derived artifact is missing (d = NoFile)
\* or has mtime d; a remote item names no local file.
InitFs(s, d) ==
    /\ fs = [p \in Paths |->
                IF p \in SrcPaths THEN s
                ELSE IF p \in DstPaths THEN d
                ELSE NoFile]
    /\ dirs = {dirname(p) : p \in {q \in DstPaths : d # NoFile}}

InitRenders ==
    /\ bg = [p \in DstPaths |-> 0]
    /\ pc = [p \in Procs |-> "idle"]
    /\ call = [p \in Procs |-> NoCall]
    /\ idx = [p \in Procs |-> 0]
    /\ items = [p \in Procs |-> <<>>]
    /\ out = [p \in Procs |-> <<>>]
    /\ err = [p \in Procs |-> ""]
    /\ loc = [p \in Procs |-> NoLoc]
    /\ looked = [p \in Procs |-> {}]
    /\ spawned = [p \in Procs |-> 0]
    /\ hist = <<>>

(***************************************************************************)
(* _get_mtime (lines 76-80).                                               *)
(***************************************************************************)
\* os.path.getmtime raises OSError for a path that is no file.
MtimeRaises(item) == ~IsRemote(item) /\ fs[get_path(item)] = NoFile

\* Mutant: the remote test is dropped and every item is stat'ed.
_get_mtime_stat(item) == int(fs[get_path(item)])

_get_mtime(item) ==
    IF IsRemote(item) THEN int(clock) ELSE int(fs[get_path(item)])

\* The items whose path _get_mtime resolves and stats.
MtimeLooks(item) == IF IsRemote(item) THEN {} ELSE {item}

(***************************************************************************)
(* Leaving a call.                                                         *)
(***************************************************************************)
\* The direct call of compile_css that is running ends: its record is closed.
CloseHist(p, raised) ==
    IF call[p].fn = "compile_css"
    THEN [hist EXCEPT ![Len(hist)] =
             [@ EXCEPT !.done = TRUE, !.raised = raised, !.n = spawned'[p]]]
    ELSE hist

\* An exception leaves the template function (or the direct call).
Raise(p, e) ==
    /\ pc' = [pc EXCEPT ![p] = "done"]
    /\ err' = [err EXCEPT ![p] = e]
    /\ hist' = CloseHist(p, TRUE)

(***************************************************************************)
(* A render starts: js(bundle, debug) or css(bundle, debug).               *)
(***************************************************************************)
Start(p, debug) ==
    /\ pc[p] = "idle"
    /\ \E fn \in DOMAIN MINIFY_BUNDLES :
       \E bundle \in DOMAIN MINIFY_BUNDLES[fn] :
          /\ call' = [call EXCEPT ![p] =
                         [fn |-> fn, bundle |-> bundle, debug |-> debug]]
          /\ pc' = [pc EXCEPT ![p] = fn]
    /\ idx' = [idx EXCEPT ![p] = 1]
    /\ UNCHANGED <<cfgvars, clock, fs, dirs, bg, items, out, err, loc, looked,
                   spawned, hist>>

Bundle(p) == MINIFY_BUNDLES[call[p].fn][call[p].bundle]

(***************************************************************************)
(* js (lines 91-119).                                                      *)
(***************************************************************************)
\* Mutant: the css key is looked up for either kind.
build_id_css_key(kind, bundle) ==
    LET global == IF kind = "js" THEN BUILD_ID_JS ELSE BUILD_ID_CSS
        key == bundle_full("css", bundle)
    IN  IF key \in DOMAIN BUNDLE_HASHES THEN BUNDLE_HASHES[key] ELSE global

\* Lines 104-107, 146-149: the build id of a bundle in production.
build_id(kind, bundle) ==
    LET global == IF kind = "js" THEN BUILD_ID_JS ELSE BUILD_ID_CSS
        key == bundle_full(kind, bundle)
    IN  IF key \in DOMAIN BUNDLE_HASHES THEN BUNDLE_HASHES[key] ELSE global

\* 'js/%s-min.js?build=%s' % (bundle, build_id): line 108 (and 151 for css).
MinName(kind, bundle, id) ==
    <<kind, "/", bundle, "-min.", kind, "?build=", id>>

\* Lines 99-102: one step of the list comprehension, debug mode.
JsDebugItem(p) ==
    /\ pc[p] = "js"
    /\ call[p].debug
    /\ idx[p] <= Len(Bundle(p))
    /\ LET item == Bundle(p)[idx[p]]
       IN  /\ looked' = [looked EXCEPT ![p] = @ \cup MtimeLooks(item)]
           /\ IF MtimeRaises(item)
              THEN /\ Raise(p, "OSError")
                   /\ UNCHANGED <<items, idx>>
              ELSE /\ items' = [items EXCEPT ![p] =
                          Append(@, WithBuild(item, str(_get_mtime(item))))]
                   /\ idx' = [idx EXCEPT ![p] = @ + 1]
                   /\ pc' = [pc EXCEPT ![p] =
                          IF idx[p] = Len(Bundle(p)) THEN "js_html" ELSE "js"]
                   /\ UNCHANGED <<err, hist>>
    /\ UNCHANGED <<cfgvars, clock, fs, dirs, bg, call, out, loc, spawned>>

\* Lines 103-108: production mode.
JsProd(p) ==
    /\ pc[p] = "js"
    /\ ~call[p].debug
    /\ items' = [items EXCEPT ![p] =
          <<MinName("js", call[p].bundle, build_id("js", call[p].bundle))>>]
    /\ pc' = [pc EXCEPT ![p] = "js_html"]
    /\ UNCHANGED <<cfgvars, clock, fs, dirs, bg, call, idx, out, err, loc,
                   looked, spawned, hist>>

\* Lines 97, 110-118: the attributes of the script tag.
JsAttrs(defer, async) ==
    <<"src">> \o (IF defer THEN <<"defer">> ELSE <<>>)
              \o (IF async THEN <<"async">> ELSE <<>>)

\* _build_html (lines 83-88): one tag per item, in the order of items.
_build_html(its, attrs) ==
    [k \in 1..Len(its) |->
        [tag |-> "script", attrs |-> attrs, src |-> _get_item_path(its[k])]]

\* Lines 110-119. defer and async are read only here, so they are drawn here.
JsHtml(p) ==
    /\ pc[p] = "js_html"
    /\ \E defer \in BOOLEAN, async \in BOOLEAN :
          out' = [out EXCEPT ![p] = _build_html(items[p], JsAttrs(defer, async))]
    /\ pc' = [pc EXCEPT ![p] = "done"]
    /\ UNCHANGED <<cfgvars, clock, fs, dirs, bg, call, idx, items, err, loc,
                   looked, spawned, hist>>

(***************************************************************************)
(* css (lines 122-160).                                                    *)
(***************************************************************************)
\* Mutant: .less is compiled whatever LESS_PREPROCESS says.
NeedsCompileAlways(item) ==
    endswith(item, {".less", ".sass", ".scss", ".styl"})

\* Lines 134-136: the items css() hands to compile_css.
NeedsCompile(item) ==
    \/ endswith(item, {".less"}) /\ LESS_PREPROCESS
    \/ endswith(item, {".sass", ".scss", ".styl"})

\* Lines 139-142: the rel of an item that is not compiled.
RelOf(item) ==
    IF endswith(item, {".less"}) THEN "stylesheet/less" ELSE "stylesheet"

\* Lines 133-142: one pass of the loop over the bundle, debug mode.
CssClassify(p) ==
    /\ pc[p] = "css"
    /\ call[p].debug
    /\ idx[p] <= Len(Bundle(p))
    /\ LET item == Bundle(p)[idx[p]]
       IN  IF NeedsCompile(item)
           THEN \* line 137: compile_css(item)
                /\ loc' = [loc EXCEPT ![p] = [NoLoc EXCEPT !.item = item]]
                /\ pc' = [pc EXCEPT ![p] = "cc_src"]
                /\ UNCHANGED <<items, idx>>
           ELSE /\ items' = [items EXCEPT ![p] = Append(@, <<item, RelOf(item)>>)]
                /\ idx' = [idx EXCEPT ![p] =
                       IF idx[p] = Len(Bundle(p)) THEN 1 ELSE @ + 1]
                /\ pc' = [pc EXCEPT ![p] =
                       IF idx[p] = Len(Bundle(p)) THEN "css_mtime" ELSE "css"]
                /\ UNCHANGED loc
    /\ UNCHANGED <<cfgvars, clock, fs, dirs, bg, call, out, err, looked,
                   spawned, hist>>

\* Line 138: items.append('%s.css' % item, 'stylesheet') passes two arguments
\* to list.append, which takes one: TypeError.
CssAppendCompiled(p) ==
    /\ pc[p] = "css_append"
    /\ Raise(p, "TypeError")
    /\ UNCHANGED <<cfgvars, clock, fs, dirs, bg, call, idx, items, out, loc,
                   looked, spawned>>

\* Line 144: one step of the list comprehension that adds the timestamps.
CssMtime(p) ==
    /\ pc[p] = "css_mtime"
    /\ idx[p] <= Len(items[p])
    /\ LET item == items[p][idx[p]]
       IN  /\ looked' = [looked EXCEPT ![p] = @ \cup MtimeLooks(item[1])]
           /\ IF MtimeRaises(item[1])
              THEN /\ Raise(p, "OSError")
                   /\ UNCHANGED <<items, idx>>
              ELSE /\ items' = [items EXCEPT ![p][idx[p]] =
                          <<WithBuild(item[1], str(_get_mtime(item[1]))), item[2]>>]
                   /\ idx' = [idx EXCEPT ![p] = @ + 1]
                   /\ pc' = [pc EXCEPT ![p] =
                          IF idx[p] = Len(items[p]) THEN "css_html" ELSE "css_mtime"]
                   /\ UNCHANGED <<err, hist>>
    /\ UNCHANGED <<cfgvars, clock, fs, dirs, bg, call, out, loc, spawned>>

\* Mutant: production stats the files of the bundle as debug mode does.
CssProdStat(p) ==
    /\ pc[p] = "css"
    /\ ~call[p].debug
    /\ items' = [items EXCEPT ![p] =
          << <<MinName("css", call[p].bundle, build_id("css", call[p].bundle)),
               "stylesheet">> >>]
    /\ looked' = [looked EXCEPT ![p] = {Bundle(p)[k] : k \in 1..Len(Bundle(p))}]
    /\ pc' = [pc EXCEPT ![p] = "css_html"]
    /\ UNCHANGED <<cfgvars, clock, fs, dirs, bg, call, idx, out, err, loc,
                   spawned, hist>>

\* Lines 145-152: production mode.
CssProd(p) ==
    /\ pc[p] = "css"
    /\ ~call[p].debug
    /\ items' = [items EXCEPT ![p] =
          << <<MinName("css", call[p].bundle, build_id("css", call[p].bundle)),
               "stylesheet">> >>]
    /\ pc' = [pc EXCEPT ![p] = "css_html"]
    /\ UNCHANGED <<cfgvars, clock, fs, dirs, bg, call, idx, out, err, loc,
                   looked, spawned, hist>>

\* Lines 128-129: a false media is replaced by CSS_MEDIA_DEFAULT, which the
\* settings modelled do not set.
MediaOf(media) == IF media = "" THEN CssMediaFallback ELSE media

\* Lines 154-160: one link per item, in the order of items.
CssLinks(its, media) ==
    [k \in 1..Len(its) |->
        [rel |-> its[k][2], media |-> media, href |-> _get_item_path(its[k][1])]]

\* Lines 128-129, 154-160. media is read only here, so it is drawn here
\* ("" stands for the default, False).
CssHtml(p) ==
    /\ pc[p] = "css_html"
    /\ \E media \in {"", "print"} :
          out' = [out EXCEPT ![p] = CssLinks(items[p], MediaOf(media))]
    /\ pc' = [pc EXCEPT ![p] = "done"]
    /\ UNCHANGED <<cfgvars, clock, fs, dirs, bg, call, idx, items, err, loc,
                   looked, spawned, hist>>

(***************************************************************************)
(* compile_css (lines 173-194) and ensure_path_exists (lines 163-169).     *)
(***************************************************************************)
path_src(p) == get_path(loc[p].item)

path_dst(p) == get_path(DotCss(loc[p].item))

\* compile_css returns: to line 138 of css(), or to the direct caller.
Return(p) ==
    /\ pc' = [pc EXCEPT ![p] = IF call[p].fn = "css" THEN "css_append" ELSE "done"]
    /\ hist' = CloseHist(p, FALSE)
    /\ UNCHANGED err

\* Mutant: the 'not updated_css' test is dropped.
IsStaleNoSentinel(updated_src, updated_css) == updated_src > updated_css

\* Mutant: >= for >.
IsStaleGe(updated_src, updated_css) ==
    updated_css = 0 \/ updated_src >= updated_css

\* Line 183: not updated_css or updated_src > updated_css.
IsStale(updated_src, updated_css) ==
    updated_css = 0 \/ updated_src > updated_css

\* Lines 174-178: the paths, the mtime of the source, updated_css = 0.
CompileStatSrc(p) ==
    /\ pc[p] = "cc_src"
    /\ looked' = [looked EXCEPT ![p] = @ \cup {loc[p].item, DotCss(loc[p].item)}]
    /\ UNCHANGED spawned
    /\ IF fs[path_src(p)] = NoFile
       THEN /\ Raise(p, "OSError")
            /\ UNCHANGED loc
       ELSE /\ loc' = [loc EXCEPT ![p].updated_src = fs[path_src(p)],
                                  ![p].updated_css = 0]
            /\ pc' = [pc EXCEPT ![p] = "cc_dst"]
            /\ UNCHANGED <<err, hist>>
    /\ UNCHANGED <<cfgvars, clock, fs, dirs, bg, call, idx, items, out>>

\* Lines 179-183: the mtime of the artifact if it exists, and the test.
CompileStatDst(p) ==
    /\ pc[p] = "cc_dst"
    /\ UNCHANGED spawned
    /\ LET exists == fs[path_dst(p)] # NoFile
           updated_css == IF exists THEN fs[path_dst(p)] ELSE 0
       IN  /\ loc' = [loc EXCEPT ![p].updated_css = updated_css,
                                  ![p].exists = exists]
           /\ IF IsStale(loc[p].updated_src, updated_css)
              THEN /\ pc' = [pc EXCEPT ![p] = "cc_mkdir"]
                   /\ UNCHANGED <<err, hist>>
              ELSE Return(p)
    /\ UNCHANGED <<cfgvars, clock, fs, dirs, bg, call, idx, items, out, looked>>

\* Lines 163-169: os.makedirs; a directory that exists already is fine.
ensure_path_exists(path) == dirs \cup {path}

\* Lines 185, 188, 191: the branch the extension selects.
Dispatch(item) ==
    IF endswith(item, {".less"}) THEN "cc_open"
    ELSE IF endswith(item, {".sass", ".scss"}) THEN "cc_open"
    ELSE IF endswith(item, {".styl"}) THEN "cc_styl"
    ELSE "cc_none"

\* Line 184, then the branch of lines 185-194.
CompileMkdir(p) ==
    /\ pc[p] = "cc_mkdir"
    /\ dirs' = ensure_path_exists(dirname(path_dst(p)))
    /\ UNCHANGED spawned
    /\ IF Dispatch(loc[p].item) = "cc_none"
       THEN Return(p)
       ELSE /\ pc' = [pc EXCEPT ![p] = Dispatch(loc[p].item)]
            /\ UNCHANGED <<err, hist>>
    /\ UNCHANGED <<cfgvars, clock, fs, bg, call, idx, items, out, loc, looked>>

\* Mutant: the artifact is opened only while no other call holds it open or
\* has a compiler writing to it.
CompileOpenLocked(p) ==
    /\ pc[p] = "cc_open"
    /\ bg[path_dst(p)] = 0
    /\ \A q \in Procs \ {p} : ~(pc[q] = "cc_spawn" /\ path_dst(q) = path_dst(p))
    /\ fs' = [fs EXCEPT ![path_dst(p)] = clock]
    /\ pc' = [pc EXCEPT ![p] = "cc_spawn"]
    /\ UNCHANGED <<cfgvars, clock, dirs, bg, call, idx, items, out, err, loc,
                   looked, spawned, hist>>

\* Lines 186, 189: open(path_dst, 'w') creates or truncates the artifact.
CompileOpen(p) ==
    /\ pc[p] = "cc_open"
    /\ fs' = [fs EXCEPT ![path_dst(p)] = clock]
    /\ pc' = [pc EXCEPT ![p] = "cc_spawn"]
    /\ UNCHANGED <<cfgvars, clock, dirs, bg, call, idx, items, out, err, loc,
                   looked, spawned, hist>>

\* Mutant: the call waits for the compiler it started.
CompileSpawnWaits(p) ==
    /\ pc[p] = "cc_spawn"
    /\ spawned' = [spawned EXCEPT ![p] = @ + 1]
    /\ \/ /\ \/ fs' = [fs EXCEPT ![path_dst(p)] = clock]
             \/ UNCHANGED fs
          /\ Return(p)
       \/ /\ Raise(p, "OSError")
          /\ UNCHANGED fs
    /\ UNCHANGED <<cfgvars, clock, dirs, bg, call, idx, items, out, loc, looked>>

\* Lines 187, 190: subprocess.Popen starts the compiler and does not wait for
\* it; it raises OSError when the binary cannot be executed.
CompileSpawn(p) ==
    /\ pc[p] = "cc_spawn"
    /\ spawned' = [spawned EXCEPT ![p] = @ + 1]
    /\ \/ /\ bg' = [bg EXCEPT ![path_dst(p)] = @ + 1]
          /\ Return(p)
       \/ /\ Raise(p, "OSError")
          /\ UNCHANGED bg
    /\ UNCHANGED <<cfgvars, clock, fs, dirs, call, idx, items, out, loc, looked>>

\* Lines 192-194: subprocess.call runs a shell, which truncates the artifact
\* for the redirection and runs the compiler.
CompileStylCall(p) ==
    /\ pc[p] = "cc_styl"
    /\ fs' = [fs EXCEPT ![path_dst(p)] = clock]
    /\ spawned' = [spawned EXCEPT ![p] = @ + 1]
    /\ pc' = [pc EXCEPT ![p] = "cc_wait"]
    /\ UNCHANGED <<cfgvars, clock, dirs, bg, call, idx, items, out, err, loc,
                   looked, hist>>

\* Lines 192-194: subprocess.call returns when the shell has exited; the
\* compiler wrote its output or failed, and the exit status is dropped.
CompileStylWait(p) ==
    /\ pc[p] = "cc_wait"
    /\ UNCHANGED spawned
    /\ \/ fs' = [fs EXCEPT ![path_dst(p)] = clock]
       \/ UNCHANGED fs
    /\ Return(p)
    /\ UNCHANGED <<cfgvars, clock, dirs, bg, call, idx, items, out, loc, looked>>

(***************************************************************************)
(* The environment: time, the compilers Popen left running, the editor.    *)
(***************************************************************************)
Tick ==
    /\ clock < MaxClock
    /\ clock' = clock + 1
    /\ UNCHANGED <<cfgvars, fs, dirs, bg, pc, call, idx, items, out, err, loc,
                   looked, spawned, hist>>

\* A compiler started by Popen exits, having written its output or not.
CompilerExit(d) ==
    /\ bg[d] > 0
    /\ bg' = [bg EXCEPT ![d] = @ - 1]
    /\ \/ fs' = [fs EXCEPT ![d] = clock]
       \/ UNCHANGED fs
    /\ UNCHANGED <<cfgvars, clock, dirs, pc, call, idx, items, out, err, loc,
                   looked, spawned, hist>>

\* The source of the item the caller compiles is saved again.
Touch ==
    /\ hist # <<>>
    /\ fs[get_path(hist[1].item)] < clock
    /\ fs' = [fs EXCEPT ![get_path(hist[1].item)] = clock]
    /\ hist' = [hist EXCEPT ![Len(hist)].touched = TRUE]
    /\ UNCHANGED <<cfgvars, clock, dirs, bg, pc, call, idx, items, out, err,
                   loc, looked, spawned>>

\* compile_css(item) is called directly; the caller stays with the item it
\* first chose.
CallCompile(p, item) ==
    /\ pc[p] \in {"idle", "done"}
    /\ call[p].fn \in {"", "compile_css"}
    /\ Len(hist) < MaxCalls
    /\ hist # <<>> => item = hist[1].item
    /\ call' = [call EXCEPT ![p] = [NoCall EXCEPT !.fn = "compile_css"]]
    /\ loc' = [loc EXCEPT ![p] = [NoLoc EXCEPT !.item = item]]
    /\ pc' = [pc EXCEPT ![p] = "cc_src"]
    /\ err' = [err EXCEPT ![p] = ""]
    /\ spawned' = [spawned EXCEPT ![p] = 0]
    /\ looked' = [looked EXCEPT ![p] = {}]
    /\ hist' = Append(hist,
          [item |-> item, src0 |-> fs[get_path(item)],
           dst0 |-> fs[get_path(DotCss(item))], t0 |-> clock,
           bg0 |-> bg[get_path(DotCss(item))], n |-> 0,
           done |-> FALSE, raised |-> FALSE, touched |-> FALSE])
    /\ UNCHANGED <<cfgvars, clock, fs, dirs, bg, idx, items, out>>

(***************************************************************************)
(* The specifications.                                                     *)
(***************************************************************************)
CompileStep(p) ==
    \/ CompileStatSrc(p)
    \/ CompileStatDst(p)
    \/ CompileMkdir(p)
    \/ CompileOpen(p)
    \/ CompileSpawn(p)
    \/ CompileStylCall(p)
    \/ CompileStylWait(p)

\* Concurrent renders, in either mode.
Init ==
    /\ LESS_PREPROCESS \in BOOLEAN
    /\ NoBuild \/ Built({bundle_full("css", "main")})
    /\ clock = 1
    /\ \E d \in {NoFile, 0, 1} : InitFs(1, d)
    /\ InitRenders

Next ==
    \/ \E p \in Procs :
          \/ \E debug \in BOOLEAN : Start(p, debug)
          \/ JsDebugItem(p)
          \/ JsProd(p)
          \/ JsHtml(p)
          \/ CssClassify(p)
          \/ CssAppendCompiled(p)
          \/ CssMtime(p)
          \/ CssProd(p)
          \/ CssHtml(p)
          \/ CompileStep(p)
    \/ Tick
    \/ \E d \in DstPaths : CompilerExit(d)

Spec == Init /\ [][Next]_vars

\* Production renders under every build.
InitProd ==
    /\ LESS_PREPROCESS \in BOOLEAN
    /\ NoBuild \/ Built(HashKeys)
    /\ clock = 1
    /\ InitFs(1, 0)
    /\ InitRenders

NextProd ==
    \E p \in Procs :
       \/ Start(p, FALSE)
       \/ JsProd(p)
       \/ JsHtml(p)
       \/ CssProd(p)
       \/ CssHtml(p)

SpecProd == InitProd /\ [][NextProd]_vars

\* One caller calling compile_css again and again.
InitCompile ==
    /\ LESS_PREPROCESS = TRUE
    /\ NoBuild
    /\ clock \in 1..MaxClock
    /\ \E s \in 0..MaxClock, d \in {NoFile} \cup (0..MaxClock) : InitFs(s, d)
    /\ InitRenders

NextCompile ==
    \/ \E item \in CompileItems : CallCompile(Caller, item)
    \/ CompileStep(Caller)
    \/ Touch
    \/ Tick
    \/ \E d \in DstPaths : CompilerExit(d)

SpecCompile == InitCompile /\ [][NextCompile]_vars

(***************************************************************************)
(* Properties.                                                             *)
(***************************************************************************)
IsRender(p) == call[p].fn \in {"js", "css"}

ProdDone(p) == pc[p] = "done" /\ IsRender(p) /\ ~call[p].debug

DevDone(p) == pc[p] = "done" /\ IsRender(p) /\ call[p].debug

InCompile(p) ==
    pc[p] \in {"cc_src", "cc_dst", "cc_mkdir", "cc_open", "cc_spawn", "cc_styl",
               "cc_wait"}

\* The URL of one emitted tag.
RefUrl(fn, o) == IF fn = "js" THEN o.src ELSE o.href

\* C1: a production render of a bundle of the manifest returns exactly one
\* reference, <base url><kind>/<bundle>-min.<kind>?build=<token>, where the
\* token is BUNDLE_HASHES['<kind>:<bundle>'] if that key is present and the
\* build id of the kind otherwise ('dev' when no build was loaded); no other
\* key of BUNDLE_HASHES matters.
C1_ProductionToken ==
    \A p \in Procs :
       ProdDone(p) =>
          LET kind == call[p].fn
              bundle == call[p].bundle
              key == <<kind, ":", bundle>>
              token == IF key \in DOMAIN BUNDLE_HASHES THEN BUNDLE_HASHES[key]
                       ELSE IF kind = "css" THEN BUILD_ID_CSS
                       ELSE BUILD_ID_JS
          IN  /\ err[p] = ""
              /\ Len(out[p]) = 1
              /\ RefUrl(kind, out[p][1]) =
                    <<STATIC_URL, kind, "/", bundle, "-min.", kind, "?build=", token>>
              /\ NoBuild => token = "dev"

\* css main rendered in production while only the js key and another
\* bundle's key hold a hash: the token is the css build id.
C1_Witness ==
    \E p \in Procs :
       /\ ProdDone(p)
       /\ call[p].fn = "css"
       /\ call[p].bundle = "main"
       /\ DOMAIN BUNDLE_HASHES = {<<"js", ":", "main">>, <<"css", ":", "theme">>}
       /\ Last(out[p][1].href) = "abc123"

\* C8 (state part): a production render resolves and stats no path, invokes
\* no compiler and raises nothing, and two finished production renders of
\* the same bundle hold the same reference however they were interleaved.
C8_State ==
    /\ \A p \in Procs :
          IsRender(p) /\ ~call[p].debug =>
             /\ looked[p] = {}
             /\ spawned[p] = 0
             /\ err[p] = ""
             /\ ~InCompile(p)
    /\ \A p, q \in Procs :
          ProdDone(p) /\ ProdDone(q) /\ call[p] = call[q] =>
             RefUrl(call[p].fn, out[p][1]) = RefUrl(call[q].fn, out[q][1])

\* C8 (step part): no step of a production render changes a file, a
\* directory or the set of running compilers.
C8_Frame ==
    \A p \in Procs :
       (call'[p].fn \in {"js", "css"} /\ ~call'[p].debug /\ pc'[p] # pc[p]) =>
          UNCHANGED <<fs, dirs, bg>>

\* C8: production renders perform no mtime lookup, start no compiler and
\* leave every file unchanged, whatever the bundle holds, so concurrent
\* production renders return what they return one after another.
C8_ProductionFrame == []C8_State /\ [][C8_Frame]_vars

\* Two production renders of css main are finished while the artifact of
\* b.less is missing or older than its source.
C8_Witness ==
    /\ \A p \in Procs : ProdDone(p) /\ call[p].fn = "css" /\ call[p].bundle = "main"
    /\ \/ fs[get_path(DotCss(ItemALess))] = NoFile
       \/ fs[get_path(DotCss(ItemALess))] < fs[get_path(ItemALess)]

IsPrefix(a, b) == Len(a) <= Len(b) /\ SubSeq(b, 1, Len(a)) = a

\* The URL an item is served under: remote as it is, local under the base.
UrlOf(item) == IF IsRemote(item) THEN item ELSE <<STATIC_URL>> \o item

\* No remote item of the bundle is handed to compile_css (which would stat a
\* local path for it).
RemotesNotCompiled(p) ==
    \A k \in 1..Len(Bundle(p)) :
       IsRemote(Bundle(p)[k]) =>
          ~(call[p].fn = "css" /\ NeedsCompile(Bundle(p)[k]))

\* C2: a development render of a bundle returns exactly one reference per
\* item of the manifest, in the order of the manifest (for a css item that
\* is compiled, the reference to its '.css' artifact), whatever mix of
\* plain, as-is and compiled items the bundle holds. Stated for the bundles
\* whose compiled items are local files.
C2_OneRefPerItem ==
    \A p \in Procs :
       (DevDone(p) /\ RemotesNotCompiled(p)) =>
          /\ err[p] = ""
          /\ Len(out[p]) = Len(Bundle(p))
          /\ \A k \in 1..Len(Bundle(p)) :
                IsPrefix(UrlOf(Bundle(p)[k]), RefUrl(call[p].fn, out[p][k]))

\* C5: a development render of a css bundle returns, for every item that
\* needs compilation, a reference to '<item>.css' with rel 'stylesheet' and
\* the mtime of the artifact as token, the compiler having been called
\* first; css main = ['a.css', 'b.less'] with LESS_PREPROCESS yields
\* a.css?build=<mtime> and b.less.css?build=<mtime>.
C5_CompiledItemReferenced ==
    \A p \in Procs :
       (DevDone(p) /\ call[p].fn = "css") =>
          \A k \in 1..Len(Bundle(p)) :
             LET item == Bundle(p)[k]
             IN  (NeedsCompile(item) /\ ~IsRemote(item)) =>
                    /\ DotCss(item) \in looked[p]
                    /\ Len(out[p]) = Len(Bundle(p))
                    /\ out[p][k].rel = "stylesheet"
                    /\ \E t \in 0..int(fs[get_path(DotCss(item))]) :
                          out[p][k].href =
                             <<STATIC_URL>> \o WithBuild(DotCss(item), str(t))

DevCss(p) == call[p].fn = "css" /\ call[p].debug

\* C6 as claimed: in a development css render an item is compiled only when
\* it has a preprocessor extension and preprocessing is enabled; with
\* preprocessing disabled nothing is compiled and every item with a
\* preprocessor extension is listed under its own path with a rel other
\* than 'stylesheet'; any other item is listed as a plain stylesheet.
C6_CompileOnlyWhenEnabled ==
    \A p \in Procs :
       DevCss(p) =>
          /\ loc[p].item # <<>> =>
                /\ endswith(loc[p].item, {".less", ".sass", ".scss", ".styl"})
                /\ LESS_PREPROCESS
          /\ ~LESS_PREPROCESS => (loc[p].item = <<>> /\ spawned[p] = 0)
          /\ \A k \in 1..Len(items[p]) :
                LET item == Bundle(p)[k]
                    e == items[p][k]
                IN  /\ IsPrefix(item, e[1])
                    /\ IF endswith(item, {".less", ".sass", ".scss", ".styl"})
                       THEN ~LESS_PREPROCESS /\ e[2] # "stylesheet"
                       ELSE e[2] = "stylesheet"

\* C6 as amended: compile_css is entered only for a .less item while
\* LESS_PREPROCESS is set, or for a .sass, .scss or .styl item (whatever the
\* setting); an item that is neither is listed under its own path, a .less
\* item (LESS_PREPROCESS unset) with rel 'stylesheet/less' and an item of
\* any other extension with rel 'stylesheet', and is not compiled.
C6_CompileRule ==
    \A p \in Procs :
       DevCss(p) =>
          /\ loc[p].item # <<>> =>
                \/ endswith(loc[p].item, {".less"}) /\ LESS_PREPROCESS
                \/ endswith(loc[p].item, {".sass", ".scss", ".styl"})
          /\ \A k \in 1..Len(items[p]) :
                LET item == Bundle(p)[k]
                    e == items[p][k]
                IN  (/\ ~(endswith(item, {".less"}) /\ LESS_PREPROCESS)
                     /\ ~endswith(item, {".sass", ".scss", ".styl"})) =>
                       /\ IsPrefix(item, e[1])
                       /\ loc[p].item # item
                       /\ IF endswith(item, {".less"})
                          THEN e[2] = "stylesheet/less"
                          ELSE e[2] = "stylesheet"

\* With LESS_PREPROCESS unset, one render returned b.less as it is and
\* another ran the compiler on t.styl.
C6_Witness ==
    /\ ~LESS_PREPROCESS
    /\ \E p, q \in Procs :
          /\ DevDone(p) /\ call[p].fn = "css" /\ call[p].bundle = "main"
          /\ err[p] = ""
          /\ out[p][2].rel = "stylesheet/less"
          /\ IsPrefix(<<STATIC_URL>> \o ItemALess, out[p][2].href)
          /\ DevCss(q) /\ loc[q].item = ItemStyl /\ spawned[q] = 1

DevRender(p) == IsRender(p) /\ call[p].debug

\* The path of entry k of items: js lists paths, css lists (path, rel).
EntryPath(p, its, k) == IF call[p].fn = "js" THEN its[k] ELSE its[k][1]

HasToken(e) == Len(e) >= 2 /\ e[Len(e) - 1] = "?build="

\* The number a token was formatted from.
Num(token) == CHOOSE n \in 0..MaxClock : str(n) = token

\* The tokens the renders hold for remote items, as numbers.
RemoteTokens ==
    {Num(Last(EntryPath(p, items[p], k))) :
        <<p, k>> \in {<<q, j>> \in Procs \X (1..3) :
                        /\ DevRender(q)
                        /\ j <= Len(items[q])
                        /\ IsRemote(EntryPath(q, items[q], j))
                        /\ HasToken(EntryPath(q, items[q], j))}}

\* The render tokens its next item in this step, and the item is remote.
TokensRemote(p) ==
    /\ DevRender(p)
    /\ pc[p] \in {"js", "css_mtime"}
    /\ idx'[p] = idx[p] + 1
    /\ IsRemote(EntryPath(p, items'[p], idx[p]))

\* C7 (step part): the token a remote item receives is the wall clock in
\* whole seconds, and no smaller than any token given to a remote item
\* before.
C7_Order ==
    \A p \in Procs :
       TokensRemote(p) =>
          /\ Last(EntryPath(p, items'[p], idx[p])) = str(int(clock))
          /\ \A n \in RemoteTokens : n <= int(clock)

\* A finished development render returned every remote item of its bundle
\* as item?build=<whole seconds>, the base url not prepended.
RemoteAsIs(p) ==
    (DevDone(p) /\ err[p] = "") =>
       \A k \in 1..Len(Bundle(p)) :
          IsRemote(Bundle(p)[k]) =>
             \E n \in 0..int(clock) :
                RefUrl(call[p].fn, out[p][k]) = WithBuild(Bundle(p)[k], str(n))

DevJs(p) == call[p].fn = "js" /\ call[p].debug

\* C7 as claimed (state part), for js renders: no path is resolved or
\* stat'ed for a remote item, it is returned without the base url, and no
\* two calls give it the same token.
C7_StateClaimed ==
    /\ \A p \in Procs : DevJs(p) => \A x \in looked[p] : ~IsRemote(x)
    /\ \A p \in Procs : DevJs(p) => RemoteAsIs(p)
    /\ \A p, q \in Procs :
          (p # q /\ DevJs(p) /\ DevJs(q) /\ DevDone(p) /\ DevDone(q)) =>
             \A k \in 1..Len(Bundle(p)), j \in 1..Len(Bundle(q)) :
                (IsRemote(Bundle(p)[k]) /\ IsRemote(Bundle(q)[j])) =>
                   Last(out[p][k].src) # Last(out[q][j].src)

\* C7 as claimed: a remote item causes no mtime lookup and no path
\* resolution, is returned without the base url, and gets a wall-clock token
\* that never decreases and differs from call to call. The state part is
\* stated for js renders, the code the claim is drawn from.
C7_RemoteTokenDistinct == []C7_StateClaimed /\ [][C7_Order]_vars

\* C7 as amended (state part): a path is resolved or stat'ed for a remote
\* item only by compile_css, that is for a css item that is compiled; a
\* remote item is returned without the base url.
C7_StateAmended ==
    /\ \A p \in Procs :
          DevRender(p) =>
             \A x \in looked[p] :
                IsRemote(x) =>
                   /\ call[p].fn = "css"
                   /\ x \in {loc[p].item, DotCss(loc[p].item)}
                   /\ \/ endswith(loc[p].item, {".less"}) /\ LESS_PREPROCESS
                      \/ endswith(loc[p].item, {".sass", ".scss", ".styl"})
    /\ \A p \in Procs : RemoteAsIs(p)

\* C7 as amended: a remote item that is not compiled causes no mtime lookup
\* and no path resolution, is returned without the base url, and gets as
\* token the wall clock in whole seconds, which never decreases from call
\* to call (and is the same for calls within one second).
C7_RemoteToken == []C7_StateAmended /\ [][C7_Order]_vars

\* Two development renders of js main returned the remote item, the first
\* with token 0 and the second, a second later, with token 1.
C7_Witness ==
    /\ \A p \in Procs :
          DevDone(p) /\ call[p].fn = "js" /\ err[p] = "" /\ looked[p] = {ItemJs}
    /\ out["r1"][2].src = WithBuild(RemoteJs, "0")
    /\ out["r2"][2].src = WithBuild(RemoteJs, "1")

\* The compilers writing to path d: those Popen left running and those a
\* call waits for.
Compilers(d) ==
    bg[d] + Cardinality({p \in Procs : pc[p] = "cc_wait" /\ path_dst(p) = d})

\* C9: nothing serialises the calls on one artifact: a call that found the
\* artifact stale can take each of its next steps whatever the other calls
\* and compilers are doing, so that two calls that both read the mtimes
\* before either wrote both start a compiler on the same path.
C9_NoLock ==
    \A p \in Procs :
       /\ pc[p] = "cc_dst" => ENABLED CompileStatDst(p)
       /\ pc[p] = "cc_mkdir" => ENABLED CompileMkdir(p)
       /\ pc[p] = "cc_open" => ENABLED CompileOpen(p)
       /\ pc[p] = "cc_spawn" => ENABLED CompileSpawn(p)
       /\ pc[p] = "cc_styl" => ENABLED CompileStylCall(p)

\* Two renders read the artifact of one item as never built, and the
\* compilers both started are running on its path at the same time.
C9_Witness ==
    \E p, q \in Procs, d \in DstPaths :
       /\ p # q
       /\ DevCss(p) /\ DevCss(q)
       /\ path_dst(p) = d /\ path_dst(q) = d
       /\ ~loc[p].exists /\ ~loc[q].exists
       /\ loc[p].updated_css = 0 /\ loc[q].updated_css = 0
       /\ spawned[p] = 1 /\ spawned[q] = 1
       /\ Compilers(d) = 2

\* A direct call of compile_css has ended.
DirectDone(p) == pc[p] = "done" /\ call[p].fn = "compile_css"

\* C3 (step part): a call that finds the artifact fresh returns at once and
\* changes no file, no directory and starts no compiler.
C3_NoOp ==
    \A p \in Procs :
       (pc[p] = "cc_dst" /\ pc'[p] \in {"done", "css_append"}) =>
          UNCHANGED <<fs, dirs, bg, spawned>>

\* C3 as claimed (state part): the call invoked the compiler if and only if
\* the artifact did not exist or its mtime T0 was below the mtime T1 of the
\* source; an existing artifact with T0 >= T1, T0 = 0 included, is left alone.
C3_StateClaimed ==
    \A p \in Procs :
       DirectDone(p) =>
          /\ spawned[p] \in {0, 1}
          /\ spawned[p] = 1 <=>
                (~loc[p].exists \/ loc[p].updated_css < loc[p].updated_src)

\* C3 as claimed: the compiler is invoked iff the artifact is missing or
\* T0 < T1; with the artifact present and T0 >= T1 the call is a no-op.
C3_StaleIffOlder == []C3_StateClaimed /\ [][C3_NoOp]_vars

\* C3 as amended (state part): the call invoked the compiler if and only if
\* the artifact did not exist, or its mtime T0 was 0, or T0 was below T1.
C3_StateAmended ==
    \A p \in Procs :
       DirectDone(p) =>
          /\ spawned[p] \in {0, 1}
          /\ spawned[p] = 1 <=>
                \/ ~loc[p].exists
                \/ loc[p].updated_css = 0
                \/ loc[p].updated_css < loc[p].updated_src

\* C3 as amended: the compiler is invoked iff the artifact is missing, or
\* its mtime T0 is 0, or T0 < T1; with the artifact present, T0 # 0 and
\* T0 >= T1 the call is a no-op that changes nothing.
C3_StaleRule == []C3_StateAmended /\ [][C3_NoOp]_vars

\* A call found the artifact present with mtime 0, the source with mtime 0,
\* and invoked the compiler.
C3_Witness ==
    \E p \in Procs :
       /\ DirectDone(p)
       /\ loc[p].exists
       /\ loc[p].updated_css = 0
       /\ loc[p].updated_src = 0
       /\ spawned[p] = 1

\* Calls i and i+1 have ended and the source was not saved since call i
\* began.
TwoCalls(i) ==
    /\ i + 1 <= Len(hist)
    /\ hist[i].done /\ hist[i + 1].done
    /\ ~hist[i].touched /\ ~hist[i + 1].touched

\* The artifact was missing or older than the source when the call began.
StaleAtStart(r) == r.dst0 = NoFile \/ r.dst0 < r.src0

\* What C4 says of calls i and i+1.
AtMostOnce(i) ==
    /\ hist[i].n + hist[i + 1].n <= 1
    /\ StaleAtStart(hist[i]) => hist[i].n = 1
    /\ hist[i + 1].n = 0

\* C4 as claimed: whatever the artifact and whatever the mtime of the source
\* relative to the clock, two calls in a row with the source unmodified
\* invoke the compiler at most once, exactly once if the artifact was
\* missing or stale, and the second call is a no-op.
C4_Idempotent ==
    \A i \in 1..MaxCalls : TwoCalls(i) => AtMostOnce(i)

\* C4 as amended: the same, for a source whose mtime is not later than the
\* wall clock when the first of the two calls begins, no compiler of an
\* earlier call being still at work on the artifact at that time.
C4_IdempotentNotFuture ==
    \A i \in 1..MaxCalls :
       (TwoCalls(i) /\ hist[i].src0 <= hist[i].t0 /\ hist[i].bg0 = 0) =>
          AtMostOnce(i)

\* Two calls on an artifact that existed and was older than its source: the
\* first invoked the compiler, the second did nothing.
C4_Witness ==
    /\ TwoCalls(1)
    /\ hist[1].src0 <= hist[1].t0
    /\ hist[1].bg0 = 0
    /\ hist[1].dst0 # NoFile
    /\ hist[1].dst0 < hist[1].src0
    /\ hist[1].n = 1
    /\ hist[2].n = 0

LessLike(item) == endswith(item, {".less", ".sass", ".scss"})

\* C10 as claimed: a call on a .less, .sass or .scss item that regenerates
\* returns normally whatever becomes of the compiler (its binary missing
\* included), having created or truncated the artifact with a fresh mtime,
\* and every later call with the source unmodified is a no-op; only a .styl
\* call returns after its compiler has exited.
C10_NeverSurfaces ==
    /\ \A i \in 1..Len(hist) :
          (hist[i].done /\ LessLike(hist[i].item)) =>
             /\ ~hist[i].raised
             /\ hist[i].n = 1 =>
                   /\ fs[get_path(DotCss(hist[i].item))] # NoFile
                   /\ fs[get_path(DotCss(hist[i].item))] >= hist[i].t0
    /\ \A i \in 1..MaxCalls : (TwoCalls(i) /\ hist[i].n = 1) => hist[i + 1].n = 0
    /\ bg[get_path(DotCss(ItemStyl))] = 0

\* C10 as amended (state part): only a .less, .sass or .scss call raises, and
\* only from Popen; a call that reached the compiler, raising or not, left
\* the artifact created or truncated with a fresh mtime; a call after it
\* invokes the compiler again only if it read a source mtime above the
\* artifact's; no compiler of a .styl call is left running.
C10_State ==
    /\ \A i \in 1..Len(hist) :
          hist[i].done =>
             /\ hist[i].n \in {0, 1}
             /\ hist[i].raised => (LessLike(hist[i].item) /\ hist[i].n = 1)
             /\ hist[i].n = 1 =>
                   /\ fs[get_path(DotCss(hist[i].item))] # NoFile
                   /\ fs[get_path(DotCss(hist[i].item))] >= hist[i].t0
    /\ \A p \in Procs :
          (DirectDone(p) /\ Len(hist) >= 2 /\ hist[Len(hist) - 1].n = 1
              /\ spawned[p] = 1) =>
             loc[p].updated_src > loc[p].updated_css
    /\ \A p \in Procs : err[p] \in {"", "OSError"}
    /\ bg[get_path(DotCss(ItemStyl))] = 0

\* C10 as amended (step part): a .less, .sass or .scss call that returns
\* normally leaves the compiler it started running; the exit of a compiler,
\* failed or not, changes no call; a .styl call returns with no compiler of
\* its own running.
C10_NoWait ==
    /\ \A p \in Procs :
          (pc[p] = "cc_spawn" /\ pc'[p] # "cc_spawn" /\ err'[p] = "") =>
             bg'[path_dst(p)] = bg[path_dst(p)] + 1
    /\ (\E d \in DstPaths : bg'[d] < bg[d]) => UNCHANGED <<pc, err, hist, spawned>>
    /\ \A p \in Procs :
          (pc[p] = "cc_wait" /\ pc'[p] # "cc_wait") =>
             (bg' = bg /\ Compilers(path_dst(p))' = 0)

\* C10 as amended: a compiler that exits non-zero is never surfaced and the
\* call does not wait for it, but a binary that cannot be executed makes
\* Popen raise OSError out of the call; either way the artifact was created
\* or truncated with a fresh mtime first, and it is regenerated only by a
\* call that reads a source mtime above the artifact's; only a .styl call
\* returns after its compiler has exited, and it raises nothing.
C10_SurfacesOnlyMissingBinary == []C10_State /\ [][C10_NoWait]_vars

\* Popen raised in the first call, which left the artifact truncated; the
\* second call, the source unmodified, did nothing.
C10_Witness ==
    /\ TwoCalls(1)
    /\ LessLike(hist[1].item)
    /\ hist[1].raised /\ hist[1].n = 1
    /\ ~hist[2].raised /\ hist[2].n = 0
    /\ bg[get_path(DotCss(hist[1].item))] = 0

====
